---- MODULE Spec2Model ----
(***************************************************************************)
(* A model of the hooks variant of the fiber renderer (src/index.js, lines *)
(* 1-340): element construction, the fiber arena, reconcileChildren, the   *)
(* cooperative workLoop, commitRoot and useState, over a mock host tree.   *)
(***************************************************************************)
EXTENDS Integers, Sequences, FiniteSets, TLC

\* ------------------------------------------------------------------ bounds
MaxRenders == 3
MaxHookRenders == 2
MaxSetCalls == 2
MaxBudget == 2
MaxOutside == 1
WholeBuild == 100

\* ------------------------------------------------------- values and props
\* null / undefined references (fiber ids and host node ids start at 1)
Null == 0
TEXT_ELEMENT == "TEXT_ELEMENT"
NoError == "none"

\* JavaScript values that occur as prop values and hook states, in one record
\* shape: a number, a string, or a closure calling the setter of hook h of
\* fiber n.
Num(n) == [k |-> "num", n |-> n, s |-> "", h |-> 0]
Str(s) == [k |-> "str", n |-> 0, s |-> s, h |-> 0]
Fn(f, i) == [k |-> "fn", n |-> f, s |-> "", h |-> i]

Digits == <<"0", "1", "2", "3", "4", "5", "6", "7", "8", "9">>

\* Assigning to a text node's nodeValue stores the string conversion.
ToDomString(v) ==
    IF v.k = "num" THEN Str(IF v.n < 10 THEN Digits[v.n + 1] ELSE "many") ELSE v

\* A props object without its children: a set of [name, val] entries.
Prop(name, val) == [name |-> name, val |-> val]
NoProps == {}
Keys(props) == {p.name : p \in props}
Get(props, key) == (CHOOSE p \in props : p.name = key).val
\* prev[key] !== next[key], where a missing key reads undefined
Differs(prev, next, key) ==
    \/ (key \in Keys(prev)) # (key \in Keys(next))
    \/ key \in Keys(prev) /\ key \in Keys(next) /\ Get(prev, key) # Get(next, key)

\* Object.keys order: the property names the inputs use, in a fixed order.
PropNames == <<"nodeValue", "name", "n", "onClick">>

isEvent(key) == key = "onClick"
isProperty(key) == key # "children" /\ ~isEvent(key)
\* a comparison that takes every key as changed
isNewAlways(prev, next, key) == TRUE
isNew(prev, next, key) == Differs(prev, next, key)
isGone(prev, next, key) == key \notin Keys(next)
\* name.toLowerCase().slice(2)
EventType(name) == IF name = "onClick" THEN "click" ELSE name

\* --------------------------------------------------------------- elements
\* A child argument of createElement: an object (an element) or a primitive.
Obj(e) == [isObject |-> TRUE, el |-> e]
Prim(v) == [isObject |-> FALSE, val |-> v]

createTextElement(text) ==
    [type |-> TEXT_ELEMENT, props |-> {Prop("nodeValue", text)}, kids |-> <<>>]

createElement(type, props, children) ==
    [type |-> type,
     props |-> props,
     kids |-> [i \in 1..Len(children) |->
                 IF children[i].isObject THEN children[i].el
                 ELSE createTextElement(children[i].val)]]

Components == {"Counter", "App", "Multi"}
\* a test that takes every fiber for a host fiber
isFunctionComponentNever(type) == FALSE
\* fiber.type instanceof Function
isFunctionComponent(type) == type \in Components

\* ------------------------------------------------------------------ state
VARIABLES
    fibers,          \* the fiber arena: fibers[id] is a fiber object
    doms,            \* the host nodes: doms[id] = [tag, props, children]
    listeners,       \* listeners registered on document: <<eventType, handler>>
    nextUnitOfWork,
    wipRoot,
    currentRoot,
    deletions,
    wipFiber,
    hookIndex,
    err,             \* the exception that escaped the last handler, if any
    scheduled,       \* workLoop is queued with requestIdleCallback
    visited,         \* fibers given to performUnitOfWork in the current build
    reconciled,      \* the reconcileChildren calls of the current build
    log,             \* host tree operations of the last commitRoot
    phase,           \* the part of commitRoot that ran last, since the last request
    commits,         \* number of commitRoot invocations
    lastHost,        \* the attached host tree as the last commitRoot left it
    nRenders,
    nSetCalls,
    nOutside,
    hist,            \* setter calls made, commits since the first and the last,
                     \* and the element of the last render call
    roots,           \* the fixture: the root elements this run renders
    twin,            \* the runtime had no build been discarded since the last commit
    cleanView        \* what the last commit gives when run on the twin

vars == <<fibers, doms, listeners, nextUnitOfWork, wipRoot, currentRoot,
          deletions, wipFiber, hookIndex, err, scheduled, visited, reconciled,
          log, phase, commits, lastHost, nRenders, nSetCalls, nOutside, hist, roots,
          twin, cleanView>>

\* The runtime as one value, for the operators that transform it.
Cur ==
    [fibers |-> fibers, doms |-> doms, listeners |-> listeners,
     nextUnitOfWork |-> nextUnitOfWork, wipRoot |-> wipRoot,
     currentRoot |-> currentRoot, deletions |-> deletions,
     wipFiber |-> wipFiber, hookIndex |-> hookIndex, err |-> err,
     visited |-> visited, reconciled |-> reconciled, log |-> log,
     phase |-> phase, commits |-> commits]

Container == 1

\* A fiber object; fields an object literal leaves out are undefined.
Fiber(type, props, kids, dom, parent, alternate, effectTag) ==
    [type |-> type, props |-> props, kids |-> kids, dom |-> dom,
     parent |-> parent, child |-> Null, sibling |-> Null,
     alternate |-> alternate, effectTag |-> effectTag, hooks |-> <<>>]

\* Sequencing: the value v of one statement, computed once and handed to the
\* statements F that follow it.
Then(v, F(_)) == CHOOSE r \in {F(x) : x \in {v}} : TRUE

Throw(S0, e) == Then(S0, LAMBDA S :
    IF S.err # NoError THEN S ELSE [S EXCEPT !.err = e])

Failed(S0) == Then(S0, LAMBDA S :
    S.err # NoError)

\* ----------------------------------------------------------- host adapter
LogOp(S0, op, node, arg) == Then(S0, LAMBDA S :
    [S EXCEPT !.log = Append(@, [op |-> op, node |-> node, arg |-> arg,
                                 phase |-> S.phase])])

ParentOf(ds, d) ==
    IF \E p \in 1..Len(ds) : \E i \in 1..Len(ds[p].children) : ds[p].children[i] = d
    THEN CHOOSE p \in 1..Len(ds) : \E i \in 1..Len(ds[p].children) : ds[p].children[i] = d
    ELSE Null

Without(seq, x) == SelectSeq(seq, LAMBDA y : y # x)

\* document.createTextNode("") / document.createElement(type)
createNode(S0, type) == Then(S0, LAMBDA S :
    [S EXCEPT !.doms = Append(@, [tag |-> type, props |-> NoProps, children |-> <<>>])])

\* parent.appendChild(child): a node that has a parent is moved
appendChild(S0, parent, child) == Then(S0, LAMBDA S :
    IF Failed(S) THEN S
    ELSE LET old == ParentOf(S.doms, child)
             S1 == IF old = Null THEN S
                   ELSE [S EXCEPT !.doms[old].children = Without(@, child)]
         IN LogOp([S1 EXCEPT !.doms[parent].children = Append(@, child)],
                  "appendChild", child, parent))

\* parent.removeChild(child): NotFoundError when child is not a child of parent
removeChild(S0, parent, child) == Then(S0, LAMBDA S :
    IF Failed(S) THEN S
    ELSE IF ParentOf(S.doms, child) # parent
         THEN Throw(LogOp(S, "removeChildFailed", child, parent), "NotFoundError")
         ELSE LogOp([S EXCEPT !.doms[parent].children = Without(@, child)],
                    "removeChild", child, parent))

\* dom[p] = value
setProperty(S0, dom, p, value) == Then(S0, LAMBDA S :
    LET stored == IF p = "nodeValue" THEN ToDomString(value) ELSE value
        rest == {q \in S.doms[dom].props : q.name # p}
    IN LogOp([S EXCEPT !.doms[dom].props = rest \cup {Prop(p, stored)}],
             "setProperty", dom, Null))

addEventListener(S0, eventType, handler) == Then(S0, LAMBDA S :
    [S EXCEPT !.listeners = @ \cup {<<eventType, handler>>}])

removeEventListener(S0, eventType, handler) == Then(S0, LAMBDA S :
    [S EXCEPT !.listeners = @ \ {<<eventType, handler>>}])

\* --------------------------------------------------------------- updateDom
RECURSIVE removeOldHandlers(_, _, _, _)
removeOldHandlers(S0, props, oldProps, i) == Then(S0, LAMBDA S :
    IF i > Len(PropNames) THEN S
    ELSE LET key == PropNames[i]
             hit == /\ key \in Keys(oldProps)
                    /\ isEvent(key)
                    /\ (key \notin Keys(props) \/ isNew(oldProps, props, key))
             S1 == IF hit
                   THEN removeEventListener(S, EventType(key), Get(oldProps, key))
                   ELSE S
         IN removeOldHandlers(S1, props, oldProps, i + 1))

RECURSIVE removeOldProperties(_, _, _, _, _)
removeOldProperties(S0, dom, props, oldProps, i) == Then(S0, LAMBDA S :
    IF i > Len(PropNames) THEN S
    ELSE LET key == PropNames[i]
             hit == /\ key \in Keys(oldProps)
                    /\ isProperty(key)
                    /\ isGone(oldProps, props, key)
             S1 == IF hit THEN setProperty(S, dom, key, Str("")) ELSE S
         IN removeOldProperties(S1, dom, props, oldProps, i + 1))

RECURSIVE setNewProperties(_, _, _, _, _)
setNewProperties(S0, dom, props, oldProps, i) == Then(S0, LAMBDA S :
    IF i > Len(PropNames) THEN S
    ELSE LET key == PropNames[i]
             hit == /\ key \in Keys(props)
                    /\ isProperty(key)
                    /\ isNew(oldProps, props, key)
             S1 == IF hit THEN setProperty(S, dom, key, Get(props, key)) ELSE S
         IN setNewProperties(S1, dom, props, oldProps, i + 1))

RECURSIVE addNewHandlers(_, _, _, _)
addNewHandlers(S0, props, oldProps, i) == Then(S0, LAMBDA S :
    IF i > Len(PropNames) THEN S
    ELSE LET key == PropNames[i]
             hit == /\ key \in Keys(props)
                    /\ isEvent(key)
                    /\ isNew(oldProps, props, key)
             S1 == IF hit
                   THEN addEventListener(S, EventType(key), Get(props, key))
                   ELSE S
         IN addNewHandlers(S1, props, oldProps, i + 1))

updateDom(S0, dom, props, oldProps) == Then(S0, LAMBDA S :
    IF Failed(S) THEN S
    ELSE addNewHandlers(
           setNewProperties(
             removeOldProperties(
               removeOldHandlers(S, props, oldProps, 1),
               dom, props, oldProps, 1),
             dom, props, oldProps, 1),
           props, oldProps, 1))

\* createDom(fiber), with the assignment fiber.dom = createDom(fiber)
createDom(S0, f) == Then(S0, LAMBDA S :
    Then(createNode(S, S.fibers[f].type),
         LAMBDA S1 :
            Then(updateDom(S1, Len(S1.doms), S.fibers[f].props, NoProps),
                 LAMBDA S2 : [S2 EXCEPT !.fibers[f].dom = Len(S1.doms)])))

\* ------------------------------------------------------- reconcileChildren
\* a comparison that takes any old fiber at the index as the same type
sameTypeByPosition(S0, oldFiber, elements, index) == Then(S0, LAMBDA S :
    oldFiber # Null /\ index < Len(elements))

\* a comparison that never reuses an old fiber
sameTypeNever(S0, oldFiber, elements, index) == Then(S0, LAMBDA S :
    FALSE)

\* oldFiber && element && element.type === oldFiber.type
sameType(S0, oldFiber, elements, index) == Then(S0, LAMBDA S :
    /\ oldFiber # Null
    /\ index < Len(elements)
    /\ elements[index + 1].type = S.fibers[oldFiber].type)

RECURSIVE reconcileLoop(_, _, _, _, _, _)
reconcileLoop(S0, w, elements, index, oldFiber, prevSibling) == Then(S0, LAMBDA S :
    IF Failed(S) \/ ~(index < Len(elements) \/ oldFiber # Null) THEN S
    ELSE
      LET hasEl == index < Len(elements)
          element == elements[index + 1]
          old == S.fibers[oldFiber]
          same == sameType(S, oldFiber, elements, index)
          newFiber == IF hasEl THEN Len(S.fibers) + 1 ELSE Null
          newRec ==
              IF same
              THEN Fiber(old.type, element.props, element.kids, old.dom, w,
                         oldFiber, "UPDATE")
              ELSE Fiber(element.type, element.props, element.kids, Null, w,
                         Null, "PLACEMENT")
          S1 == IF hasEl THEN [S EXCEPT !.fibers = Append(@, newRec)] ELSE S
          S2 == IF oldFiber # Null /\ ~same
                THEN [S1 EXCEPT !.fibers[oldFiber].effectTag = "DELETION",
                                !.deletions = Append(@, oldFiber)]
                ELSE S1
          nextOld == IF oldFiber # Null THEN old.sibling ELSE Null
          S3 == IF index = 0 THEN [S2 EXCEPT !.fibers[w].child = newFiber]
                ELSE IF hasEl
                     THEN IF prevSibling = Null THEN Throw(S2, "TypeError")
                          ELSE [S2 EXCEPT !.fibers[prevSibling].sibling = newFiber]
                     ELSE S2
      IN reconcileLoop(S3, w, elements, index + 1, nextOld, newFiber))

\* the fiber f and its later siblings, in order
RECURSIVE Chain(_, _)
Chain(fs, f) == IF f = Null THEN <<>> ELSE <<f>> \o Chain(fs, fs[f].sibling)

\* the call reconcileChildren(w, elements), as it starts
Call(S0, w, elements) == Then(S0, LAMBDA S :
    [S EXCEPT !.reconciled = Append(@, [parent |-> w, elements |-> elements])])

\* reconcileChildren that does not look at the alternate
reconcileChildrenNoOld(S0, w, elements) == Then(S0, LAMBDA S :
    reconcileLoop(Call(S, w, elements), w, elements, 0, Null, Null))

reconcileChildren(S0, w, elements) == Then(S0, LAMBDA S :
    LET alt == S.fibers[w].alternate
        oldFiber == IF alt # Null THEN S.fibers[alt].child ELSE Null
    IN reconcileLoop(Call(S, w, elements), w, elements, 0, oldFiber, Null))

\* ---------------------------------------------------------------- useState
\* The update functions the inputs enqueue.
UpdateFns == {"inc", "dbl"}
Apply(action, v) ==
    CASE action = "inc" -> Num(v.n + 1)
      [] action = "dbl" -> Num(v.n * 2)
      [] OTHER -> v

RECURSIVE Replay(_, _, _)
RECURSIVE ReplayReversed(_, _, _)
\* a replay that applies the queued actions last first
ReplayReversed(queue, i, v) ==
    IF i > Len(queue) THEN v
    ELSE Apply(queue[i], ReplayReversed(queue, i + 1, v))

\* actions.forEach(action => { hook.state = action(hook.state) })
Replay(queue, i, v) ==
    IF i > Len(queue) THEN v ELSE Replay(queue, i + 1, Apply(queue[i], v))

\* useState(initial): the runtime after the call. The state it returns is the
\* state of the cell it pushed; the setter it returns is Fn(wipFiber, index).
useState(S0, initial) == Then(S0, LAMBDA S :
    IF Failed(S) THEN S
    ELSE IF S.wipFiber = Null THEN Throw(S, "TypeError")
    ELSE
      LET w == S.wipFiber
          alt == S.fibers[w].alternate
          hasOld == alt # Null /\ S.hookIndex + 1 <= Len(S.fibers[alt].hooks)
          oldHook == S.fibers[alt].hooks[S.hookIndex + 1]
          state == IF hasOld THEN Replay(oldHook.queue, 1, oldHook.state)
                   ELSE initial
          hook == [state |-> state, queue |-> <<>>]
      IN [S EXCEPT !.fibers[w].hooks = Append(@, hook),
                   !.hookIndex = @ + 1])

\* The state returned by the most recent useState call of the executing fiber.
LastHookState(S0) == Then(S0, LAMBDA S :
    S.fibers[S.wipFiber].hooks[Len(S.fibers[S.wipFiber].hooks)].state)

\* the render request of setState (lines 213-219)
rerender(S0) == Then(S0, LAMBDA S :
    IF S.currentRoot = Null THEN Throw(S, "TypeError")
    ELSE LET cur == S.fibers[S.currentRoot]
             root == Fiber("undefined", cur.props, cur.kids, cur.dom, Null,
                           S.currentRoot, "NONE")
             S1 == [S EXCEPT !.fibers = Append(@, root)]
         IN [S1 EXCEPT !.wipRoot = Len(S1.fibers),
                       !.nextUnitOfWork = Len(S1.fibers),
                       !.deletions = <<>>,
                       !.visited = <<>>,
                       !.reconciled = <<>>,
                       !.phase = "none"])

\* setState(action) of the cell hooks[i] of fiber f
setState(S0, f, i, action) == Then(S0, LAMBDA S :
    rerender([S EXCEPT !.fibers[f].hooks[i].queue = Append(@, action)]))

\* ------------------------------------------------------------- components
\* function Counter(): one useState(0); <div>count: {count}<button .../></div>
Counter(S0, f) == Then(S0, LAMBDA S :
    Then(useState(S, Num(0)),
         LAMBDA S1 :
            LET count == LastHookState(S1)
                setCount == Fn(f, S.hookIndex + 1)
                button == createElement("button", {Prop("onClick", setCount)},
                                        <<Prim(Str("plus one"))>>)
            IN [S |-> S1,
                el |-> createElement("div", NoProps,
                          <<Prim(Str("count: ")), Prim(count), Obj(button)>>)]))

\* function App(props): <h1>Hi, {props.name}</h1>
App(S0, f) == Then(S0, LAMBDA S :
    [S |-> S,
     el |-> createElement("h1", NoProps,
                          <<Prim(Str("Hi, ")), Prim(Get(S.fibers[f].props, "name"))>>)])

\* A component that calls useState(0) props.n times.
RECURSIVE CallUseState(_, _)
CallUseState(S0, n) == Then(S0, LAMBDA S :
    IF n = 0 THEN S ELSE CallUseState(useState(S, Num(0)), n - 1))

Multi(S0, f) == Then(S0, LAMBDA S :
    LET n == Get(S.fibers[f].props, "n").n
    IN [S |-> CallUseState(S, n),
        el |-> createElement("p", NoProps, <<Prim(Num(n))>>)])

\* fiber.type(fiber.props)
CallComponent(S0, f) == Then(S0, LAMBDA S :
    CASE S.fibers[f].type = "Counter" -> Counter(S, f)
      [] S.fibers[f].type = "App" -> App(S, f)
      [] OTHER -> Multi(S, f))

\* ------------------------------------------------------- performUnitOfWork
\* updateHostComponent with the host node attached as soon as it is created
updateHostComponentEager(S0, f) == Then(S0, LAMBDA S :
    Then(IF S.fibers[f].dom = Null THEN createDom(S, f) ELSE S,
         LAMBDA S1 :
            LET p == S1.fibers[f].parent
            IN Then(IF S.fibers[f].dom = Null /\ p # Null /\ S1.fibers[p].dom # Null
                    THEN appendChild(S1, S1.fibers[p].dom, S1.fibers[f].dom)
                    ELSE S1,
                    LAMBDA S2 : reconcileChildren(S2, f, S2.fibers[f].kids))))

updateHostComponent(S0, f) == Then(S0, LAMBDA S :
    Then(IF S.fibers[f].dom = Null THEN createDom(S, f) ELSE S,
         LAMBDA S1 : reconcileChildren(S1, f, S1.fibers[f].kids)))

updateFunctionComponent(S0, f) == Then(S0, LAMBDA S :
    Then(CallComponent([S EXCEPT !.wipFiber = f, !.hookIndex = 0,
                                 !.fibers[f].hooks = <<>>], f),
         LAMBDA r : reconcileChildren(r.S, f, <<r.el>>)))

\* the walk up to the next sibling (lines 257-263)
RECURSIVE nextSibling(_, _)
\* the walk that looks one level up only
nextSiblingShallow(S0, nextFiber) == Then(S0, LAMBDA S :
    IF nextFiber = Null THEN Null
    ELSE IF S.fibers[nextFiber].sibling # Null THEN S.fibers[nextFiber].sibling
    ELSE IF S.fibers[nextFiber].parent = Null THEN Null
    ELSE S.fibers[S.fibers[nextFiber].parent].sibling)

nextSibling(S0, nextFiber) == Then(S0, LAMBDA S :
    IF nextFiber = Null THEN Null
    ELSE IF S.fibers[nextFiber].sibling # Null THEN S.fibers[nextFiber].sibling
    ELSE nextSibling(S, S.fibers[nextFiber].parent))

nextUnit(S0, f) == Then(S0, LAMBDA S :
    IF S.fibers[f].child # Null THEN S.fibers[f].child ELSE nextSibling(S, f))

\* performUnitOfWork(fiber), with the assignment of its result to nextUnitOfWork
performUnitOfWork(S0, f) == Then(S0, LAMBDA S :
    Then(IF isFunctionComponent(S.fibers[f].type)
         THEN updateFunctionComponent([S EXCEPT !.visited = Append(@, f)], f)
         ELSE updateHostComponent([S EXCEPT !.visited = Append(@, f)], f),
         LAMBDA S1 :
            IF Failed(S1) THEN S1
            ELSE [S1 EXCEPT !.nextUnitOfWork = nextUnit(S1, f)]))

\* ------------------------------------------------------------------ commit
RECURSIVE commitDeletion(_, _, _)
commitDeletion(S0, f, domParent) == Then(S0, LAMBDA S :
    IF Failed(S) THEN S
    ELSE IF f = Null THEN Throw(S, "TypeError")
    ELSE IF S.fibers[f].dom # Null THEN removeChild(S, domParent, S.fibers[f].dom)
    ELSE commitDeletion(S, S.fibers[f].child, domParent))

RECURSIVE parentDomFiber(_, _)
parentDomFiber(S0, p) == Then(S0, LAMBDA S :
    IF p = Null THEN Null
    ELSE IF S.fibers[p].dom # Null THEN p
    ELSE parentDomFiber(S, S.fibers[p].parent))

\* the three effect cases of commitWork (lines 148-156)
commitEffect(S0, f, parentDom) == Then(S0, LAMBDA S :
    LET fb == S.fibers[f]
    IN Then(IF fb.effectTag = "DELETION" THEN commitDeletion(S, f, parentDom)
            ELSE S,
            LAMBDA S1 :
               Then(IF fb.effectTag = "PLACEMENT" /\ fb.dom # Null
                    THEN appendChild(S1, parentDom, fb.dom)
                    ELSE S1,
                    LAMBDA S2 :
                       IF fb.effectTag = "UPDATE" /\ fb.dom # Null
                       THEN updateDom(S2, fb.dom, fb.props,
                                      S.fibers[fb.alternate].props)
                       ELSE S2)))

RECURSIVE commitWork(_, _)
commitWork(S0, f) == Then(S0, LAMBDA S :
    IF Failed(S) \/ f = Null THEN S
    ELSE Then(parentDomFiber(S, S.fibers[f].parent),
              LAMBDA pf :
                 IF pf = Null THEN Throw(S, "TypeError")
                 ELSE commitWork(
                        commitWork(commitEffect(S, f, S.fibers[pf].dom),
                                   S.fibers[f].child),
                        S.fibers[f].sibling)))

RECURSIVE commitDeletions(_, _)
commitDeletions(S0, i) == Then(S0, LAMBDA S :
    IF i > Len(S.deletions) THEN S
    ELSE commitDeletions(commitWork(S, S.deletions[i]), i + 1))

commitRoot(S0) == Then(S0, LAMBDA S :
    Then(commitDeletions([S EXCEPT !.log = <<>>, !.phase = "deletions",
                                   !.commits = @ + 1], 1),
         LAMBDA S1 :
            IF Failed(S1) THEN S1
            ELSE Then(commitWork([S1 EXCEPT !.phase = "tree"],
                                 S1.fibers[S1.wipRoot].child),
                      LAMBDA S2 :
                         IF Failed(S2) THEN S2
                         ELSE [S2 EXCEPT !.currentRoot = S2.wipRoot,
                                         !.wipRoot = Null, !.phase = "done"])))

\* ---------------------------------------------------------------- workLoop
\* deadline.timeRemaining() < 1 becomes true after `budget` units of the slice
RECURSIVE drain(_, _, _)
drain(S0, budget, done) == Then(S0, LAMBDA S :
    IF Failed(S) \/ S.nextUnitOfWork = Null \/ done >= budget THEN S
    ELSE drain(performUnitOfWork(S, S.nextUnitOfWork), budget, done + 1))

workLoop(S0, budget) == Then(S0, LAMBDA S :
    Then(drain(S, budget, 0),
         LAMBDA S1 :
            IF ~Failed(S1) /\ S1.nextUnitOfWork = Null /\ S1.wipRoot # Null
            THEN commitRoot(S1)
            ELSE S1))

\* ------------------------------------------------------------------ render
\* a render that starts from no previous tree
renderFromScratch(S0, element, container) == Then(S0, LAMBDA S :
    LET root == Fiber("undefined", NoProps, <<element>>, container, Null,
                      Null, "NONE")
        S1 == [S EXCEPT !.fibers = Append(@, root)]
    IN [S1 EXCEPT !.wipRoot = Len(S1.fibers),
                  !.deletions = <<>>,
                  !.nextUnitOfWork = Len(S1.fibers),
                  !.visited = <<>>,
                  !.reconciled = <<>>,
                  !.phase = "none"])

render(S0, element, container) == Then(S0, LAMBDA S :
    LET root == Fiber("undefined", NoProps, <<element>>, container, Null,
                      S.currentRoot, "NONE")
        S1 == [S EXCEPT !.fibers = Append(@, root)]
    IN [S1 EXCEPT !.wipRoot = Len(S1.fibers),
                  !.deletions = <<>>,
                  !.nextUnitOfWork = Len(S1.fibers),
                  !.visited = <<>>,
                  !.reconciled = <<>>,
                  !.phase = "none"])

\* ------------------------------------------------------- the attached tree
RECURSIVE Reach(_, _)
Reach(ds, d) ==
    LET Sub[i \in 0..Len(ds[d].children)] ==
            IF i = 0 THEN {} ELSE Sub[i - 1] \cup Reach(ds, ds[d].children[i])
    IN {d} \cup Sub[Len(ds[d].children)]

Attached(ds) == Reach(ds, Container)
HostTree(ds) == [d \in Attached(ds) |-> ds[d]]

\* The host tree and the committed fiber tree without node and fiber ids.
MaskVal(v) == IF v.k = "fn" THEN [v EXCEPT !.n = 0] ELSE v
MaskProps(props) == {Prop(p.name, MaskVal(p.val)) : p \in props}

RECURSIVE HostView(_, _)
HostView(ds, d) ==
    [tag |-> ds[d].tag, props |-> MaskProps(ds[d].props),
     kids |-> [i \in 1..Len(ds[d].children) |-> HostView(ds, ds[d].children[i])]]

RECURSIVE FiberView(_, _)
\* the fiber f and its later siblings, each with its subtree
FiberView(fs, f) ==
    IF f = Null THEN <<>>
    ELSE <<[type |-> fs[f].type, props |-> MaskProps(fs[f].props),
            effectTag |-> fs[f].effectTag, hasDom |-> fs[f].dom # Null,
            hooks |-> [i \in 1..Len(fs[f].hooks) |-> fs[f].hooks[i].state],
            kids |-> FiberView(fs, fs[f].child)]>> \o FiberView(fs, fs[f].sibling)

View(S0) == Then(S0, LAMBDA S :
    [host |-> HostView(S.doms, Container),
     tree |-> FiberView(S.fibers, S.currentRoot),
     err |-> S.err])

\* ----------------------------------------------------------------- actions
Install(S) ==
    /\ fibers' = S.fibers
    /\ doms' = S.doms
    /\ listeners' = S.listeners
    /\ nextUnitOfWork' = S.nextUnitOfWork
    /\ wipRoot' = S.wipRoot
    /\ currentRoot' = S.currentRoot
    /\ deletions' = S.deletions
    /\ wipFiber' = S.wipFiber
    /\ hookIndex' = S.hookIndex
    /\ err' = S.err
    /\ visited' = S.visited
    /\ reconciled' = S.reconciled
    /\ log' = S.log
    /\ phase' = S.phase
    /\ commits' = S.commits
    /\ lastHost' = IF S.commits # commits THEN HostTree(S.doms) ELSE lastHost

Entry == [Cur EXCEPT !.err = NoError]

\* ------------------------------------------------------------ the inputs
Leaf(t) == createElement(t, NoProps, <<>>)
Div(kids) == createElement("div", NoProps, kids)
CounterEl == createElement("Counter", NoProps, <<>>)
AppEl == createElement("App", {Prop("name", Str("Own React Demo"))}, <<>>)
MultiEl(n) == createElement("Multi", {Prop("n", Num(n))}, <<>>)

\* The root elements a run renders: one of three fixtures.
HookRoots == {CounterEl}
TreeRoots ==
    {Div(<<Obj(Leaf("a")), Obj(Leaf("b"))>>),
     Div(<<Obj(Leaf("b")), Obj(Leaf("a"))>>),
     Div(<<Obj(AppEl), Obj(Leaf("b"))>>)}
MultiRoots == {MultiEl(1), MultiEl(2)}
SwitchRoots == {CounterEl, AppEl}
ListRoots ==
    {Div(<<>>),
     Div(<<Obj(Leaf("a"))>>),
     Div(<<Obj(Leaf("b")), Obj(Leaf("a"))>>),
     Div(<<Obj(Leaf("a")), Obj(Leaf("b")), Obj(Leaf("a"))>>)}

\* The slice budgets: the deadline expires after 1..MaxBudget units, or not
\* before the build is drained.
Budgets == 1..MaxBudget \cup {WholeBuild}

InitWith(rs) ==
    /\ roots = rs
    /\ fibers = <<>>
    /\ doms = <<[tag |-> "root", props |-> NoProps, children |-> <<>>]>>
    /\ listeners = {}
    /\ nextUnitOfWork = Null
    /\ wipRoot = Null
    /\ currentRoot = Null
    /\ deletions = <<>>
    /\ wipFiber = Null
    /\ hookIndex = 0
    /\ err = NoError
    /\ scheduled = TRUE
    /\ visited = <<>>
    /\ reconciled = <<>>
    /\ log = <<>>
    /\ phase = "none"
    /\ commits = 0
    /\ lastHost = HostTree(doms)
    /\ nRenders = 0
    /\ nSetCalls = 0
    /\ nOutside = 0
    /\ hist = [calls |-> 0, cycles |-> 0, since |-> 0, requested |-> <<>>]
    /\ twin = Cur
    /\ cleanView = View(Cur)

Init == \E rs \in {HookRoots, TreeRoots, MultiRoots} : InitWith(rs)

\* Renders of host trees need three generations, those of components two.
RenderBound == IF roots = TreeRoots THEN MaxRenders ELSE MaxHookRenders

\* OwnReact.render(e, container)
Render(e) ==
    /\ nRenders < RenderBound
    /\ e \in roots
    /\ Install(render(Entry, e, Container))
    /\ twin' = render(twin, e, Container)
    /\ nRenders' = nRenders + 1
    /\ hist' = [hist EXCEPT !.requested = <<e>>]
    /\ UNCHANGED <<roots, cleanView, scheduled, nSetCalls, nOutside>>

\* a call of the setter that some execution of fiber f returned for its cell i
\* (the harness calls the setters of the counter only)
SetStateWith(f, i, action) ==
    /\ nSetCalls < MaxSetCalls
    /\ roots \in {HookRoots, SwitchRoots}
    /\ f \in 1..Len(fibers)
    /\ i \in 1..Len(fibers[f].hooks)
    /\ Install(setState(Entry, f, i, action))
    /\ twin' = IF f <= Len(twin.fibers) /\ i <= Len(twin.fibers[f].hooks)
               THEN setState(twin, f, i, action) ELSE rerender(twin)
    /\ nSetCalls' = nSetCalls + 1
    /\ hist' = [hist EXCEPT !.calls = @ + 1, !.since = 0]
    /\ UNCHANGED <<roots, cleanView, scheduled, nRenders, nOutside>>

\* setCount(c => c + 1), as the button's listener calls it
SetState(f, i) == SetStateWith(f, i, "inc")

\* the idle callback: workLoop(deadline), and its requestIdleCallback(workLoop)
Slice(budget) ==
    /\ scheduled
    /\ \E S \in {workLoop(Entry, budget)} :
          /\ Install(S)
          /\ scheduled' = ~Failed(S)
          /\ twin' = IF S.currentRoot # currentRoot THEN S ELSE twin
          /\ cleanView' = IF S.commits # commits
                          THEN View(workLoop([twin EXCEPT !.err = NoError], WholeBuild))
                          ELSE cleanView
          /\ hist' = IF S.currentRoot # currentRoot /\ hist.calls > 0
                     THEN [hist EXCEPT !.cycles = @ + 1, !.since = @ + 1] ELSE hist
    /\ UNCHANGED <<roots, nRenders, nSetCalls, nOutside>>

\* a call of useState(0) from outside any component function
UseStateOutside ==
    /\ nOutside < MaxOutside
    /\ roots = MultiRoots
    /\ Install(useState(Entry, Num(0)))
    /\ twin' = useState([twin EXCEPT !.err = NoError], Num(0))
    /\ nOutside' = nOutside + 1
    /\ UNCHANGED <<roots, cleanView, scheduled, nRenders, nSetCalls, hist>>

\* ---------------------------------------------------------- specifications
Next ==
    \/ \E e \in roots : Render(e)
    \/ \E f \in 1..Len(fibers) : \E i \in 1..Len(fibers[f].hooks) : SetState(f, i)
    \/ \E budget \in Budgets : Slice(budget)
    \/ UseStateOutside

Spec == Init /\ [][Next]_vars

\* Trees of host elements and a hookless component.
NextTree ==
    \/ \E e \in TreeRoots : Render(e)
    \/ \E budget \in Budgets : Slice(budget)

SpecTree == InitWith(TreeRoots) /\ [][NextTree]_vars

\* The idle callback is run whenever it stays requested; each run may find
\* any of the budgets.
SliceGranted == WF_vars(\E budget \in Budgets : Slice(budget))

SpecTreeFair == SpecTree /\ SliceGranted

\* The counter of the demo.
NextHooks ==
    \/ \E e \in HookRoots : Render(e)
    \/ \E f \in 1..Len(fibers) : \E i \in 1..Len(fibers[f].hooks) : SetState(f, i)
    \/ \E budget \in Budgets : Slice(budget)

SpecHooks == InitWith(HookRoots) /\ [][NextHooks]_vars

\* Components whose number of useState calls varies, and useState called
\* outside a component.
NextMisuse ==
    \/ \E e \in MultiRoots : Render(e)
    \/ \E budget \in Budgets : Slice(budget)
    \/ UseStateOutside

SpecMisuse == InitWith(MultiRoots) /\ [][NextMisuse]_vars

\* The counter with setters called with c => c + 1 and with c => c * 2.
NextReplay ==
    \/ \E e \in HookRoots : Render(e)
    \/ \E f \in 1..Len(fibers) : \E i \in 1..Len(fibers[f].hooks) :
          \E action \in UpdateFns : SetStateWith(f, i, action)
    \/ \E budget \in Budgets : Slice(budget)

SpecReplay == InitWith(HookRoots) /\ [][NextReplay]_vars

\* The counter and a hookless component as alternative roots, with the
\* counter's setters.
NextSwitch ==
    \/ \E e \in SwitchRoots : Render(e)
    \/ \E f \in 1..Len(fibers) : \E i \in 1..Len(fibers[f].hooks) : SetState(f, i)
    \/ \E budget \in Budgets : Slice(budget)

SpecSwitchFair == InitWith(SwitchRoots) /\ [][NextSwitch]_vars /\ SliceGranted

\* Child lists of every length from none to three.
NextList ==
    \/ \E e \in ListRoots : Render(e)
    \/ \E budget \in Budgets : Slice(budget)

SpecList == InitWith(ListRoots) /\ [][NextList]_vars

\* ------------------------------------------------------------------ claims
RECURSIVE Preorder(_, _)
\* the fibers of the tree under f in depth-first preorder, f first, followed
\* by the trees of f's later siblings
Preorder(fs, f) ==
    IF f = Null THEN <<>>
    ELSE <<f>> \o Preorder(fs, fs[f].child) \o Preorder(fs, fs[f].sibling)

\* the tree the current or the last build made
BuildRoot == IF wipRoot # Null THEN wipRoot ELSE currentRoot
BuildOrder == Preorder(fibers, BuildRoot)

\* C1: commitRoot runs only with nextUnitOfWork null and wipRoot non-null; the
\* attached host tree (structure and properties) changes only in a step that
\* runs commitRoot; so whenever a build is unfinished the attached host tree
\* is the one the last commitRoot left.
C1_HostChangesOnlyInCommit ==
    [][/\ (commits' # commits => wipRoot # Null /\ nextUnitOfWork' = Null)
       /\ (HostTree(doms)' # HostTree(doms) => commits' # commits)
       /\ (nextUnitOfWork' # Null => HostTree(doms)' = lastHost')]_vars

\* a build was suspended with host nodes created and not attached, after an
\* earlier commit attached others
C1_Witness ==
    /\ nextUnitOfWork # Null
    /\ Len(visited) > 1
    /\ currentRoot # Null
    /\ Len(doms) > Cardinality(Attached(doms))
    /\ Cardinality(Attached(doms)) > 1

\* C2: the units performUnitOfWork has processed in the current build are, in
\* order, a prefix without repetition of the depth-first preorder of the tree
\* being built; nextUnitOfWork is the fiber that follows that prefix, and is
\* null only when the prefix is the whole tree.
C2_PreorderExactlyOnce ==
    err = NoError /\ BuildRoot # Null =>
        /\ Len(visited) <= Len(BuildOrder)
        /\ visited = SubSeq(BuildOrder, 1, Len(visited))
        /\ \A i, j \in 1..Len(visited) : i # j => visited[i] # visited[j]
        /\ nextUnitOfWork =
             IF Len(visited) < Len(BuildOrder) /\ wipRoot # Null
             THEN BuildOrder[Len(visited) + 1] ELSE Null
        /\ (wipRoot = Null => Len(visited) = Len(BuildOrder))

\* a build of the seven fibers of <div><App/><b/></div> was suspended and
\* resumed at the fiber that is reached by walking up two levels
C2_Witness ==
    /\ Len(visited) = 6
    /\ nextUnitOfWork # Null
    /\ fibers[nextUnitOfWork].type = "b"
    /\ fibers[fibers[nextUnitOfWork].parent].type = "div"
    /\ fibers[visited[6]].type = TEXT_ELEMENT

\* the state of the first hook cell of the committed root component
CommittedState == fibers[fibers[currentRoot].child].hooks[1].state

\* C3: after two setter calls, each enqueuing c => c + 1, and two
\* render/commit cycles (at least one of them after the second call), the
\* committed state of the counter is 2, whichever setters were called.
C3_TwoCallsGiveTwo ==
    /\ hist.calls = 2
    /\ hist.cycles = 2
    /\ hist.since >= 1
    /\ wipRoot = Null
    => CommittedState = Num(2)

RECURSIVE Subtree(_, _)
\* the fiber f, its later siblings, and their descendants
Subtree(fs, f) ==
    IF f = Null THEN {}
    ELSE {f} \cup Subtree(fs, fs[f].child) \cup Subtree(fs, fs[f].sibling)

\* the host nodes of the fibers of the subtree of a fiber in deletions
DeletedHosts ==
    {fibers[g].dom :
        g \in {g \in 1..Len(fibers) :
                 /\ fibers[g].dom # Null
                 /\ \E i \in 1..Len(deletions) :
                       g \in {deletions[i]} \cup Subtree(fibers, fibers[deletions[i]].child)}}

Removals(n) ==
    {i \in 1..Len(log) : log[i].op \in {"removeChild", "removeChildFailed"}
                         /\ log[i].node = n}

\* C4: the deletion step of a commit touches only host nodes of the deleted
\* subtrees, never attempts a removeChild that fails, removes no node twice,
\* and when the commit is done no host node of a deleted subtree is attached.
C4_DeletionRemovesExactlySubtrees ==
    phase # "none" =>
        /\ \A i \in 1..Len(log) :
              /\ log[i].op # "removeChildFailed"
              /\ log[i].phase = "deletions" => log[i].node \in DeletedHosts
              /\ Cardinality(Removals(log[i].node)) <= 1
        /\ DeletedHosts \cap Attached(doms) = {}

\* C5: a commit leaves the host tree and the committed fiber tree that the
\* same request gives on the runtime in which no build was discarded since
\* the commit before.
C5_DiscardedBuildLeavesNoTrace ==
    phase # "none" => View(Cur) = cleanView

\* the attached host nodes with the given tag and, for a text node, value
AttachedWith(tag, value) ==
    {d \in Attached(doms) :
        /\ doms[d].tag = tag
        /\ tag = TEXT_ELEMENT => doms[d].props = {Prop("nodeValue", Str(value))}}

TextNode(value) ==
    [tag |-> TEXT_ELEMENT, props |-> {Prop("nodeValue", Str(value))}, kids |-> <<>>]

\* the host tree of the counter showing the text `digit`
CounterHost(digit) ==
    [tag |-> "root", props |-> NoProps, kids |->
      <<[tag |-> "div", props |-> NoProps, kids |->
          <<TextNode("count: "), TextNode(digit),
            [tag |-> "button", props |-> NoProps,
             kids |-> <<TextNode("plus one")>>]>>]>>]

CommittedFibers == Subtree(fibers, currentRoot)

\* the first commit of <Counter/>, no setter called yet
CounterMounted ==
    roots = HookRoots /\ phase = "done" /\ commits = 1 /\ hist.calls = 0

\* one render of <Counter/>, one setter call after its commit, and the commit
\* of the re-render
CounterIncremented ==
    /\ roots = HookRoots /\ phase = "done" /\ commits = 2
    /\ nRenders = 1 /\ hist.calls = 1

SetPropertyOps == {i \in 1..Len(log) : log[i].op = "setProperty"}

\* C6 as stated: the counter mounts as one text node "count: 0" and one
\* button; the increment applies exactly one property update, which makes
\* that text "count: 1", with no Placement and no Deletion.
C6_AsStated ==
    /\ CounterMounted =>
          /\ Cardinality(AttachedWith(TEXT_ELEMENT, "count: 0")) = 1
          /\ Cardinality(AttachedWith("button", "")) = 1
    /\ CounterIncremented =>
          /\ Cardinality(SetPropertyOps) = 1
          /\ Cardinality(AttachedWith(TEXT_ELEMENT, "count: 1")) = 1

\* C6, amended: the counter mounts as a div holding the text nodes "count: "
\* and "0" and one button (holding the text node "plus one"); the increment
\* applies exactly one property update and no other host tree operation: the
\* second text node's value becomes "1"; the build tagged no fiber Placement
\* and put nothing in deletions.
C6_CounterScenario ==
    /\ CounterMounted => HostView(doms, Container) = CounterHost("0")
    /\ CounterIncremented =>
          /\ Len(log) = 1
          /\ log[1].op = "setProperty"
          /\ doms[log[1].node].props = {Prop("nodeValue", Str("1"))}
          /\ HostView(doms, Container) = CounterHost("1")
          /\ \A f \in CommittedFibers : fibers[f].effectTag # "PLACEMENT"
          /\ deletions = <<>>

C6_Witness == CounterIncremented /\ CommittedState = Num(1)

\* a commit of a build of the same root element as the committed tree, with
\* every update queue of the committed tree empty
IdempotentCommit ==
    /\ currentRoot # Null
    /\ currentRoot' # currentRoot
    /\ fibers'[currentRoot'].kids = fibers[currentRoot].kids
    /\ \A f \in CommittedFibers : \A i \in 1..Len(fibers[f].hooks) :
          fibers[f].hooks[i].queue = <<>>

\* C7 as stated: such a build tags every fiber of the new tree Update.
C7_AsStated ==
    [][IdempotentCommit =>
         \A f \in Subtree(fibers', currentRoot') : fibers'[f].effectTag = "UPDATE"]_vars

\* C7, amended: such a build tags every fiber of the new tree below the root
\* Update (the root fiber carries no effect tag), tags none Placement, puts
\* nothing in deletions, and its commit leaves the structure and the property
\* values of the attached host tree as they were.
C7_Idempotence ==
    [][IdempotentCommit =>
         /\ \A f \in Subtree(fibers', currentRoot') \ {currentRoot'} :
               fibers'[f].effectTag = "UPDATE"
         /\ fibers'[currentRoot'].effectTag = "NONE"
         /\ deletions' = <<>>
         /\ HostTree(doms)' = HostTree(doms)]_vars

\* the committed tree is the second generation of the same root element
C7_Witness ==
    /\ currentRoot # Null
    /\ fibers[currentRoot].alternate # Null
    /\ fibers[currentRoot].kids = fibers[fibers[currentRoot].alternate].kids
    /\ phase = "done"
    /\ Cardinality(CommittedFibers) >= 7
    /\ \A f \in CommittedFibers \ {currentRoot} : fibers[f].effectTag = "UPDATE"

\* the children of fiber f, in order
ChildrenOf(f) == Chain(fibers, fibers[f].child)

\* fiber w of the current build was reconciled with elements [B, A] against
\* committed children [A, B] of distinct types
Swapped(w) ==
    /\ fibers[w].alternate # Null
    /\ Len(ChildrenOf(fibers[w].alternate)) = 2
    /\ Len(fibers[w].kids) = 2
    /\ LET old == ChildrenOf(fibers[w].alternate)
       IN /\ fibers[old[1]].type # fibers[old[2]].type
          /\ fibers[w].kids[1].type = fibers[old[2]].type
          /\ fibers[w].kids[2].type = fibers[old[1]].type

\* C8: reconciling [A, B] against [B, A] tags both old fibers Deletion and
\* puts both in deletions, and makes two fibers tagged Placement with no
\* alternate and, until they are processed, no host node; no new fiber has
\* the host node of an old one.
C8_PositionalReplace ==
    \A k \in 1..Len(visited) :
        Swapped(visited[k]) =>
            LET w == visited[k]
                old == ChildrenOf(fibers[w].alternate)
                new == ChildrenOf(w)
            IN /\ Len(new) = 2
               /\ \A i \in 1..2 :
                     /\ fibers[old[i]].effectTag = "DELETION"
                     /\ \E j \in 1..Len(deletions) : deletions[j] = old[i]
                     /\ fibers[new[i]].effectTag = "PLACEMENT"
                     /\ fibers[new[i]].alternate = Null
                     /\ fibers[new[i]].type = fibers[w].kids[i].type
                     /\ (\A j \in 1..Len(visited) : visited[j] # new[i])
                           => fibers[new[i]].dom = Null
                     /\ \A j \in 1..2 : new[i] # old[j]
                                        /\ fibers[new[i]].dom # fibers[old[j]].dom

\* the slice ended right after the swapped parent was reconciled
C8_Witness ==
    /\ visited # <<>>
    /\ Swapped(visited[Len(visited)])
    /\ nextUnitOfWork = fibers[visited[Len(visited)]].child
    /\ Len(deletions) = 2

\* C9: after a commitRoot that a failing host operation aborted, the error is
\* surfaced, currentRoot is not promoted and workLoop is still queued.
C9_RuntimeSurvivesCommitFailure ==
    phase \in {"deletions", "tree"} =>
        /\ err # NoError
        /\ wipRoot # Null /\ currentRoot # wipRoot
        /\ scheduled

\* the component fibers processed in this step
Executed ==
    {f \in 1..Len(fibers') :
        /\ isFunctionComponent(fibers'[f].type)
        /\ \E k \in 1..Len(visited') : visited'[k] = f
        /\ ~\E k \in 1..Len(visited) : visited[k] = f}

\* C10: a useState call outside a component execution raises an error and
\* changes no hook cell; an execution that makes a number of useState calls
\* different from the number of cells of the alternate raises an error.
C10_UseStateFailsFast ==
    [][/\ nOutside' # nOutside =>
            /\ err' # NoError
            /\ \A f \in 1..Len(fibers) : fibers'[f].hooks = fibers[f].hooks
       /\ \A f \in Executed :
            /\ fibers'[f].alternate # Null
            /\ Len(fibers'[f].hooks) # Len(fibers'[fibers'[f].alternate].hooks)
            => err' # NoError]_vars

\* the number of times fiber f is in deletions
TimesDeleted(f) == Cardinality({j \in 1..Len(deletions) : deletions[j] = f})

WasVisited(f) == \E j \in 1..Len(visited) : visited[j] = f

\* the old sibling chain of fiber w: the children of its alternate
OldChain(w) ==
    IF fibers[w].alternate = Null THEN <<>>
    ELSE Chain(fibers, fibers[fibers[w].alternate].child)

\* C11: for every reconcileChildren(parent, elements) call of the current
\* build, with the old sibling chain parent.alternate.child: the parent's
\* child/sibling chain holds one new fiber per element, in element order, each
\* with parent = the parent fiber; at an index where the old fiber and the
\* element have the same type the new fiber is tagged Update, has the old
\* fiber's host node and alternate = the old fiber, which is not in deletions;
\* at any other index the new fiber is tagged Placement, has no alternate and,
\* until it is processed, no host node, and the old fiber is tagged Deletion
\* and is in deletions exactly once.
C11_ReconcileChildren ==
    \A k \in 1..Len(reconciled) :
        LET w == reconciled[k].parent
            elements == reconciled[k].elements
            old == OldChain(w)
            new == ChildrenOf(w)
            same(i) == /\ i <= Len(old) /\ i <= Len(elements)
                       /\ fibers[old[i]].type = elements[i].type
        IN /\ Len(new) = Len(elements)
           /\ \A i \in 1..Len(new) :
                 /\ fibers[new[i]].parent = w
                 /\ fibers[new[i]].type = elements[i].type
                 /\ fibers[new[i]].props = elements[i].props
                 /\ fibers[new[i]].kids = elements[i].kids
                 /\ \A j \in 1..Len(old) : new[i] # old[j]
                 /\ IF same(i)
                    THEN /\ fibers[new[i]].effectTag = "UPDATE"
                         /\ fibers[new[i]].alternate = old[i]
                         /\ fibers[new[i]].dom = fibers[old[i]].dom
                    ELSE /\ fibers[new[i]].effectTag = "PLACEMENT"
                         /\ fibers[new[i]].alternate = Null
                         /\ ~WasVisited(new[i]) => fibers[new[i]].dom = Null
           /\ \A i \in 1..Len(old) :
                 IF same(i) THEN TimesDeleted(old[i]) = 0
                 ELSE /\ fibers[old[i]].effectTag = "DELETION"
                      /\ TimesDeleted(old[i]) = 1

\* the call of index k had an old chain of m fibers and n elements
Reconciled(k, m, n) ==
    /\ k <= Len(reconciled)
    /\ Len(OldChain(reconciled[k].parent)) = m
    /\ Len(reconciled[k].elements) = n

\* three old children against one element of the type of the first: one
\* Update, two Deletions, and the new fiber processed against no old child
C11_Witness ==
    /\ Reconciled(2, 3, 1)
    /\ Reconciled(3, 0, 0)
    /\ fibers[reconciled[3].parent].effectTag = "UPDATE"
    /\ Len(deletions) = 2

\* the hook cells (fiber, index) whose queue this step extended by one update
Enqueued ==
    {c \in {<<f, i>> : f \in 1..Len(fibers), i \in 1..2} :
        /\ c[2] <= Len(fibers[c[1]].hooks)
        /\ fibers'[c[1]].hooks[c[2]].queue
             = Append(fibers[c[1]].hooks[c[2]].queue, "inc")}

\* C12: every setter invocation, in any state in which the setter exists
\* (also before the first commit, when currentRoot is null), raises no error,
\* appends the update function to the queue of one cell, and sets wipRoot to
\* a fresh root with alternate = currentRoot and the container and root
\* element of currentRoot, nextUnitOfWork to that root and deletions to [].
C12_SetterNeverFails ==
    [][nSetCalls' # nSetCalls =>
         /\ err' = NoError
         /\ Cardinality(Enqueued) = 1
         /\ wipRoot' = Len(fibers') /\ Len(fibers') = Len(fibers) + 1
         /\ fibers'[wipRoot'].alternate = currentRoot
         /\ currentRoot # Null =>
               /\ fibers'[wipRoot'].dom = fibers[currentRoot].dom
               /\ fibers'[wipRoot'].props = fibers[currentRoot].props
               /\ fibers'[wipRoot'].kids = fibers[currentRoot].kids
         /\ nextUnitOfWork' = wipRoot'
         /\ deletions' = <<>>]_vars

\* the queued update functions applied to v, first enqueued first
Folded(queue, v) ==
    LET F[n \in 0..Len(queue)] == IF n = 0 THEN v ELSE Apply(queue[n], F[n - 1])
    IN F[Len(queue)]

\* C13: a step that executes a component fiber leaves it with one cell per
\* useState call, each with an empty queue; the n-th cell's state is the state
\* of the n-th cell of the alternate with that cell's queued update functions
\* applied in enqueue order, or the initial value 0 when the alternate has no
\* n-th cell; the cells of the alternate are as they were.
C13_ReplayInOrder ==
    [][\A f \in Executed :
         LET a == fibers'[f].alternate
         IN /\ \A n \in 1..Len(fibers'[f].hooks) :
                  /\ fibers'[f].hooks[n].queue = <<>>
                  /\ fibers'[f].hooks[n].state =
                       IF a # Null /\ n <= Len(fibers[a].hooks)
                       THEN Folded(fibers[a].hooks[n].queue, fibers[a].hooks[n].state)
                       ELSE Num(0)
            /\ a # Null => fibers'[a].hooks = fibers[a].hooks]_vars

\* a re-execution replayed c => c + 1 and then c => c * 2 on the state 0
C13_Witness ==
    \E f \in 1..Len(fibers) :
        /\ fibers[f].alternate # Null
        /\ Len(fibers[f].hooks) = 1
        /\ fibers[f].hooks[1] = [state |-> Num(2), queue |-> <<>>]
        /\ fibers[fibers[f].alternate].hooks =
              <<[state |-> Num(0), queue |-> <<"inc", "dbl">>]>>

\* C14: a pending build (nextUnitOfWork non-null) is eventually drained and
\* committed (wipRoot is null again, the build promoted to currentRoot), once
\* no further render request is made, whatever budget each granted slice
\* finds.
C14_PendingBuildCommits ==
    nextUnitOfWork # Null ~> wipRoot = Null

\* the ancestors of fiber f, nearest first
RECURSIVE Ancestors(_, _)
Ancestors(fs, f) ==
    IF fs[f].parent = Null THEN <<>>
    ELSE <<fs[f].parent>> \o Ancestors(fs, fs[f].parent)

\* the host node of the nearest ancestor of f that has one, if any
TargetOf(f) ==
    LET anc == Ancestors(fibers, f)
        with == {i \in 1..Len(anc) : fibers[anc[i]].dom # Null}
    IN IF with = {} THEN Null
       ELSE fibers[anc[CHOOSE i \in with : \A j \in with : i <= j]].dom

\* C15: in the committed tree the root is bound to the container, every
\* other fiber has a host node exactly if its type is a host tag (a component
\* fiber has none), and every fiber below the root has an ancestor with a
\* host node; no commit fails to find that ancestor, and the walk of the new
\* tree appends the host node of a fiber under the host node of the nearest
\* such ancestor.
C15_HostNodeIffHostTag ==
    /\ ~(phase \in {"deletions", "tree"} /\ err = "TypeError")
    /\ currentRoot # Null =>
          /\ fibers[currentRoot].dom = Container
          /\ \A f \in CommittedFibers \ {currentRoot} :
                /\ (fibers[f].dom # Null) <=> (fibers[f].type \notin Components)
                /\ TargetOf(f) # Null
    /\ phase # "none" =>
          \A i \in 1..Len(log) : \A f \in Subtree(fibers, BuildRoot) :
              /\ log[i].phase = "tree"
              /\ log[i].op = "appendChild"
              /\ fibers[f].dom = log[i].node
              => log[i].arg = TargetOf(f)

\* the second generation of a tree with a component fiber whose child's host
\* node is attached under the host node of the component's parent
C15_Witness ==
    /\ phase = "done"
    /\ \E f \in CommittedFibers :
          /\ fibers[f].type = "App"
          /\ fibers[f].effectTag = "UPDATE"
          /\ fibers[f].dom = Null
          /\ fibers[fibers[f].parent].dom # Container
          /\ ParentOf(doms, fibers[fibers[f].child].dom) = fibers[fibers[f].parent].dom

\* f heads a sibling chain of a tree and g the chain at the same path of child
\* indices in an older tree (null where that tree has no such position): every
\* non-null alternate in the chains of f and below is the fiber at the same
\* path, and no fiber tagged Placement has an alternate
RECURSIVE AlternatesAt(_, _, _)
AlternatesAt(fs, f, g) ==
    IF f = Null THEN TRUE
    ELSE /\ fs[f].alternate # Null => fs[f].alternate = g
         /\ fs[f].effectTag = "PLACEMENT" => fs[f].alternate = Null
         /\ AlternatesAt(fs, fs[f].child, IF g = Null THEN Null ELSE fs[g].child)
         /\ AlternatesAt(fs, fs[f].sibling, IF g = Null THEN Null ELSE fs[g].sibling)

\* C16: the alternate of the work-in-progress root is currentRoot; in the
\* work-in-progress tree every non-null alternate is the fiber at the same
\* path in the tree of currentRoot, and in the committed tree the fiber at
\* the same path in the tree of the committed root's alternate (the tree that
\* was current when the build started); a Placement fiber has no alternate.
C16_AlternateSamePosition ==
    /\ wipRoot # Null =>
          /\ fibers[wipRoot].alternate = currentRoot
          /\ AlternatesAt(fibers, fibers[wipRoot].child,
                          IF currentRoot = Null THEN Null
                          ELSE fibers[currentRoot].child)
    /\ currentRoot # Null =>
          AlternatesAt(fibers, fibers[currentRoot].child,
                       IF fibers[currentRoot].alternate = Null THEN Null
                       ELSE fibers[fibers[currentRoot].alternate].child)

\* a third build, after one commit and one discarded build, has reused a
\* fiber two levels below the root
C16_Witness ==
    /\ nRenders = 3 /\ commits = 1 /\ wipRoot # Null
    /\ \E k \in 1..Len(visited) :
          /\ fibers[visited[k]].alternate # Null
          /\ fibers[visited[k]].parent # wipRoot
          /\ fibers[visited[k]].parent # Null
          /\ fibers[fibers[visited[k]].alternate].effectTag = "DELETION"

\* the host nodes of the nearest host-bearing fibers in the chain of f and
\* below it, in the order of the declared children
RECURSIVE HostKids(_, _)
HostKids(fs, f) ==
    IF f = Null THEN <<>>
    ELSE (IF fs[f].dom # Null THEN <<fs[f].dom>> ELSE HostKids(fs, fs[f].child))
         \o HostKids(fs, fs[f].sibling)

\* C17: when a commit is done, the children of the host node of every
\* host-bearing fiber of the committed tree (the container for the root) are
\* the host nodes of its nearest host-bearing descendant fibers, in the order
\* of the declared children.
C17_HostTreeMirrorsElements ==
    phase = "done" =>
        \A f \in CommittedFibers :
            fibers[f].dom # Null =>
                doms[fibers[f].dom].children = HostKids(fibers, fibers[f].child)

\* the listeners the on* props of the host fibers of the committed tree
\* declare
DeclaredListeners ==
    {<<EventType(p.name), p.val>> :
        p \in {q \in UNION {fibers[f].props : f \in {g \in CommittedFibers :
                                                      fibers[g].dom # Null}} :
                 isEvent(q.name)}}

\* C18: when a commit is done, the listeners registered with the host are
\* exactly the on* props of the host fibers of the committed tree.
C18_ListenersMatchCommittedTree ==
    phase = "done" => listeners = DeclaredListeners

\* no build is in progress and the committed tree has root element e
Shows(e) ==
    /\ wipRoot = Null
    /\ currentRoot # Null
    /\ fibers[currentRoot].kids = <<e>>

\* C19: after the n-th render call, render(e, container), a tree with root
\* element e is eventually committed, with no build left in progress, unless
\* a later render call is made (or a failed commit has stopped the work
\* loop), also when setters are called in the meantime.
C19_RequestedRootCommits ==
    \A n \in 1..MaxHookRenders : \A e \in SwitchRoots :
        (nRenders = n /\ hist.requested = <<e>>)
            ~> (nRenders > n \/ ~scheduled \/ Shows(e))

\* the first hook cell of the committed root component
CommittedCell == fibers[fibers[currentRoot].child].hooks[1]

\* C20: no update is lost and none is applied twice: whenever every build has
\* committed, each c => c + 1 passed to a setter of the counter's cell so far,
\* whichever execution returned the setter, is applied in the committed state
\* or still queued on the committed cell for the next build, so the committed
\* state plus the length of that queue is the number of setter calls.
C20_NoUpdateLost ==
    wipRoot = Null /\ currentRoot # Null =>
        CommittedCell.state.n + Len(CommittedCell.queue) = hist.calls

====
